---- MODULE Spec2Model ----
(***************************************************************************)
(* Model of the int-code computer of advent-day2-part1.py: the constructor *)
(* of IntCodeComputer (copy of the caller's list, 1202 calibration) and    *)
(* compute_int_code, one action per iteration of its while loop.           *)
(*                                                                         *)
(* Python values are records: kind "int" (payload n), kind "str" (payload  *)
(* s, a sequence of one-character strings) and kind "none" (None, also     *)
(* used for a local variable that has not been assigned yet).              *)
(***************************************************************************)
EXTENDS Integers, Sequences, FiniteSets, TLC

\* ------------------------------------------------------------------------
\* Bounds of the model
\* ------------------------------------------------------------------------
\* longest caller list enumerated slot by slot over ShortVals
MaxShort == 3
\* largest number of 0 slots appended after the last instruction of a long program
MaxPad == 1
\* largest absolute value of an operand handed to a strategy on its own
MaxOperand == 4
\* longest list of module masses
MaxModules == 3

\* ------------------------------------------------------------------------
\* Python values
\* ------------------------------------------------------------------------
PyInt(n) == [kind |-> "int", n |-> n, s |-> <<>>]
PyStr(s) == [kind |-> "str", n |-> 0, s |-> s]
PyNone == [kind |-> "none", n |-> 0, s |-> <<>>]

IsInt(v) == v.kind = "int"
IsStr(v) == v.kind = "str"
IsNone(v) == v.kind = "none"
\* Python's ==  between a value and an int literal
EqInt(v, k) == IsInt(v) /\ v.n = k

DigitVal == ("0" :> 0) @@ ("1" :> 1) @@ ("2" :> 2) @@ ("3" :> 3) @@ ("4" :> 4) @@
            ("5" :> 5) @@ ("6" :> 6) @@ ("7" :> 7) @@ ("8" :> 8) @@ ("9" :> 9)

AllDigits(s) == \A i \in 1..Len(s) : s[i] \in DOMAIN DigitVal

RECURSIVE DecimalValue(_)
DecimalValue(s) ==
    IF Len(s) = 0 THEN 0
    ELSE 10 * DecimalValue(SubSeq(s, 1, Len(s) - 1)) + DigitVal[s[Len(s)]]

\* int(v): an int is itself, a text of decimal digits is its value, any other
\* text raises ValueError, None raises TypeError
ToInt(v) ==
    IF IsInt(v) THEN [exc |-> "none", n |-> v.n]
    ELSE IF IsStr(v)
         THEN IF Len(v.s) > 0 /\ AllDigits(v.s)
              THEN [exc |-> "none", n |-> DecimalValue(v.s)]
              ELSE [exc |-> "ValueError", n |-> 0]
         ELSE [exc |-> "TypeError", n |-> 0]

\* ------------------------------------------------------------------------
\* Program constants (IntCodeComputer.__init__)
\* ------------------------------------------------------------------------
INSTR_SET_LEN == 4
STRATEGY_POS == 0
VALUE_1_POS == 1
VALUE_2_POS == 2
TARGET_POS == 3
ADD_STRATEGY_CODE == 1
MULTIPLY_STRATEGY_CODE == 2
HALT_CODE == 99
\* the values written by _restore_1202_state
NOUN_1202 == 12
VERB_1202 == 2

FAILURE_TEXT == PyStr(<<"Unknown. Prepare for impact.">>)
MSG_FORMAT == "IntCodes were not provided in the correct format. Please provide masses in a list."
MSG_1202 == "The 1202 Program Alarm state could not be restored due to an input error."
MSG_NON_INT_ADD == "A non-integer was given to the addition operation."
MSG_NON_INT_MUL == "A non-integer was given to the multiplication operation."
MSG_UNEXPECTED == "Unexpected instruction value received."
MSG_ABORT == "Incorrect parameters. Aborting computation."

\* ------------------------------------------------------------------------
\* Python list access
\* ------------------------------------------------------------------------
\* lst[i]: a non-int index raises TypeError, an index outside -len..len-1
\* raises IndexError, a negative index in range counts from the end
IndexExc(lst, i) ==
    IF ~IsInt(i) THEN "TypeError"
    ELSE IF i.n >= Len(lst) \/ i.n < -Len(lst) THEN "IndexError"
    ELSE "none"

Slot(lst, i) == IF i.n < 0 THEN i.n + Len(lst) + 1 ELSE i.n + 1

GetItem(lst, i) ==
    IF IndexExc(lst, i) # "none" THEN [exc |-> IndexExc(lst, i), v |-> PyNone]
    ELSE [exc |-> "none", v |-> lst[Slot(lst, i)]]

\* the variant that writes one slot too far
SetItem_OffByOne(lst, i, v) ==
    IF IndexExc(lst, i) # "none" THEN [exc |-> IndexExc(lst, i), lst |-> lst]
    ELSE [exc |-> "none",
          lst |-> [k \in 1..Len(lst) |-> IF k = Slot(lst, i) + 1 THEN v ELSE lst[k]]]

SetItem(lst, i, v) ==
    IF IndexExc(lst, i) # "none" THEN [exc |-> IndexExc(lst, i), lst |-> lst]
    ELSE [exc |-> "none", lst |-> [lst EXCEPT ![Slot(lst, i)] = v]]

\* ------------------------------------------------------------------------
\* The strategies
\* ------------------------------------------------------------------------
\* IntCodeAddStrategy.calculate: first_value + second_value; Python adds two
\* ints, concatenates two texts, and raises TypeError for anything else, which
\* is caught: the message is printed and None returned
AddCalculate_Doubling(first_value, second_value) ==
    IF IsInt(first_value) /\ IsInt(second_value)
    THEN [value |-> PyInt(first_value.n + first_value.n), printed |-> <<>>]
    ELSE IF IsStr(first_value) /\ IsStr(second_value)
    THEN [value |-> PyStr(first_value.s \o second_value.s), printed |-> <<>>]
    ELSE [value |-> PyNone, printed |-> <<MSG_NON_INT_ADD>>]

AddCalculate(first_value, second_value) ==
    IF IsInt(first_value) /\ IsInt(second_value)
    THEN [value |-> PyInt(first_value.n + second_value.n), printed |-> <<>>]
    ELSE IF IsStr(first_value) /\ IsStr(second_value)
    THEN [value |-> PyStr(first_value.s \o second_value.s), printed |-> <<>>]
    ELSE [value |-> PyNone, printed |-> <<MSG_NON_INT_ADD>>]

\* IntCodeMultiplyStrategy.calculate: int(first_value) * int(second_value);
\* TypeError and ValueError are caught: message printed, None returned
MultiplyCalculate(first_value, second_value) ==
    IF ToInt(first_value).exc = "none" /\ ToInt(second_value).exc = "none"
    THEN [value |-> PyInt(ToInt(first_value).n * ToInt(second_value).n), printed |-> <<>>]
    ELSE [value |-> PyNone, printed |-> <<MSG_NON_INT_MUL>>]

\* IntCodeComputer._set_target_value: None raises CalculationException,
\* otherwise the list assignment (which may itself raise)
SetTargetValue(lst, target, value) ==
    IF ~IsNone(value) THEN SetItem(lst, target, value)
    ELSE [exc |-> "CalculationException", lst |-> lst]

\* IntCodeComputer._restore_1202_state: slot 1 := 12, slot 2 := 2, then the
\* nominal flag; IndexError becomes CalculationException after a message
\* the variant that moves the old slot 1 into slot 2
Restore1202State_Shifting(lst) ==
    LET w1 == SetItem(lst, PyInt(1), PyInt(NOUN_1202))
        w2 == SetItem(w1.lst, PyInt(2), GetItem(lst, PyInt(1)).v)
    IN  IF w1.exc # "none"
        THEN [exc |-> "CalculationException", lst |-> lst, nominal |-> FALSE, printed |-> <<MSG_1202>>]
        ELSE IF w2.exc # "none"
        THEN [exc |-> "CalculationException", lst |-> w1.lst, nominal |-> FALSE, printed |-> <<MSG_1202>>]
        ELSE [exc |-> "none", lst |-> w2.lst, nominal |-> TRUE, printed |-> <<>>]

\* the variant that writes the two values into each other's slot
Restore1202State_Swapped(lst) ==
    LET w1 == SetItem(lst, PyInt(1), PyInt(VERB_1202))
        w2 == SetItem(w1.lst, PyInt(2), PyInt(NOUN_1202))
    IN  IF w1.exc # "none"
        THEN [exc |-> "CalculationException", lst |-> lst, nominal |-> FALSE, printed |-> <<MSG_1202>>]
        ELSE IF w2.exc # "none"
        THEN [exc |-> "CalculationException", lst |-> w1.lst, nominal |-> FALSE, printed |-> <<MSG_1202>>]
        ELSE [exc |-> "none", lst |-> w2.lst, nominal |-> TRUE, printed |-> <<>>]

\* the variant that swallows the IndexError
Restore1202State_Lenient(lst) ==
    LET w1 == SetItem(lst, PyInt(1), PyInt(NOUN_1202))
        w2 == SetItem(w1.lst, PyInt(2), PyInt(VERB_1202))
    IN  [exc |-> "none", lst |-> w2.lst, nominal |-> TRUE, printed |-> <<>>]

Restore1202State(lst) ==
    LET w1 == SetItem(lst, PyInt(1), PyInt(NOUN_1202))
        w2 == SetItem(w1.lst, PyInt(2), PyInt(VERB_1202))
    IN  IF w1.exc # "none"
        THEN [exc |-> "CalculationException", lst |-> lst, nominal |-> FALSE, printed |-> <<MSG_1202>>]
        ELSE IF w2.exc # "none"
        THEN [exc |-> "CalculationException", lst |-> w1.lst, nominal |-> FALSE, printed |-> <<MSG_1202>>]
        ELSE [exc |-> "none", lst |-> w2.lst, nominal |-> TRUE, printed |-> <<>>]

\* ------------------------------------------------------------------------
\* The caller's lists
\* ------------------------------------------------------------------------
\* a list of ints as a list of Python values
Ints(q) == [i \in 1..Len(q) |-> PyInt(q[i])]

TextA == PyStr(<<"a">>)
TextB == PyStr(<<"b">>)
Text3 == PyStr(<<"3">>)
Text4 == PyStr(<<"4">>)

ShortVals == {PyInt(1), PyInt(99), PyInt(77), TextA}
ShortLists == UNION {[1..n -> ShortVals] : n \in 0..MaxShort}

Opcodes == {ADD_STRATEGY_CODE, MULTIPLY_STRATEGY_CODE, HALT_CODE, 77}

\* first instruction: slots 1 and 2 are what the caller supplied there
FirstAll ==
    {<<PyInt(op), sl[1], sl[2], PyInt(d)>> :
        op \in Opcodes, sl \in {<<PyInt(0), PyInt(0)>>, <<PyInt(5), TextA>>}, d \in {0, 4, -1, 30}}
FirstGood ==
    {Ints(<<op, 0, 0, d>>) : op \in {ADD_STRATEGY_CODE, MULTIPLY_STRATEGY_CODE}, d \in {0, 4}}
SecondAll ==
    {Ints(<<op, a, b, d>>) : op \in Opcodes, a \in {0, 13, -1, 30}, b \in {0, 14, -1}, d \in {0, 8, 30}}
SecondFew == {Ints(<<HALT_CODE, 0, 0, 0>>), Ints(<<ADD_STRATEGY_CODE, 0, 0, 0>>)}
ThirdAll == {Ints(<<HALT_CODE, 0, 0, 0>>), Ints(<<ADD_STRATEGY_CODE, 0, 0, 0>>)}
ThirdFew == {Ints(<<HALT_CODE, 0, 0, 0>>)}
\* last instruction: slot 12 is also the first operand of the first instruction
LastAll ==
    {Ints(<<HALT_CODE>>), Ints(<<HALT_CODE, 0, 0, 0>>), Ints(<<HALT_CODE, 30, 40, 50>>),
     Ints(<<ADD_STRATEGY_CODE, 0, 0, 0>>),
     <<PyInt(ADD_STRATEGY_CODE), TextA, TextB, PyInt(0)>>,
     <<PyInt(MULTIPLY_STRATEGY_CODE), Text3, Text4, PyInt(0)>>}
Pads == {[i \in 1..k |-> PyInt(0)] : k \in 0..MaxPad}

LongLists ==
    {i0 \o i1 \o i2 \o i3 \o pad :
        i0 \in FirstAll, i1 \in SecondFew, i2 \in ThirdFew, i3 \in LastAll, pad \in Pads}
    \cup
    {i0 \o i1 \o i2 \o i3 \o pad :
        i0 \in FirstGood, i1 \in SecondAll, i2 \in ThirdAll, i3 \in LastAll, pad \in Pads}

\* the programs of the documented scenarios
ScenarioLists ==
    {Ints(<<1, 0, 0, 0, 99>>), Ints(<<2, 3, 0, 3, 99>>),
     Ints(<<1, 9, 10, 3, 2, 3, 11, 0, 99, 30, 40, 50>>),
     Ints(<<1, 0, 0, 3, 99>>), Ints(<<3>>), Ints(<<77, 0, 0, 0, 99>>)}

\* what the caller passes to IntCodeComputer(...): a list, or something that
\* is not iterable (items is then unused)
NotIterable == [iterable |-> FALSE, items |-> <<>>]
Inputs == {NotIterable} \cup {[iterable |-> TRUE, items |-> q] : q \in ShortLists \cup LongLists \cup ScenarioLists}

\* ------------------------------------------------------------------------
\* State
\* ------------------------------------------------------------------------
VARIABLES
    int_code_input,     \* the caller's object
    int_code_list,      \* self._int_code_list
    is_state_nominal,   \* self._is_state_nominal
    cursor_pos,         \* locals of compute_int_code
    strategy, value1_pos, value1, value2_pos, value2, target,
    return_value,
    state,              \* New, Ready, Running, Halted, Exhausted, Failed, Raised
    returned,           \* compute_int_code has returned return_value
    exc,                \* type of the exception raised, "none" if none
    printed,            \* the messages printed, in order
    module_masses,      \* FuelCalculator._module_masses
    total_fuel,         \* local of get_total_fuel
    module_index,       \* number of modules the for loop of get_total_fuel has taken
    fuel_pc             \* Idle, Summing, Raised (exception in flight), Done (returned)

locals == <<strategy, value1_pos, value1, value2_pos, value2, target>>
fuel_vars == <<module_masses, total_fuel, module_index, fuel_pc>>
vars == <<int_code_input, int_code_list, is_state_nominal, cursor_pos, locals,
          return_value, state, returned, exc, printed, fuel_vars>>

\* no FuelCalculator exists
FuelIdle ==
    /\ module_masses = <<>>
    /\ total_fuel = PyNone
    /\ module_index = 0
    /\ fuel_pc = "Idle"

Init ==
    /\ int_code_input \in Inputs
    /\ int_code_list = <<>>
    /\ is_state_nominal = FALSE
    /\ cursor_pos = 0
    /\ strategy = PyNone /\ value1_pos = PyNone /\ value1 = PyNone
    /\ value2_pos = PyNone /\ value2 = PyNone /\ target = PyNone
    /\ return_value = PyNone
    /\ state = "New"
    /\ returned = FALSE
    /\ exc = "none"
    /\ printed = <<>>
    /\ FuelIdle

\* ------------------------------------------------------------------------
\* IntCodeComputer.__init__
\* ------------------------------------------------------------------------
\* list() += int_code_list copies the items of an iterable and raises
\* TypeError otherwise (reported as CalculationException); then the 1202
\* state is restored, whose CalculationException is not caught here
\* the caller's object after a write to self._int_code_list: line 73 makes a
\* new list and line 74 copies the items into it, so the write does not reach it
CallerList_Aliased(inp, lst) == IF inp.iterable THEN [inp EXCEPT !.items = lst] ELSE inp

CallerList(inp, lst) == inp

InitComputer(inp) ==
    IF ~inp.iterable
    THEN [exc |-> "CalculationException", lst |-> <<>>, nominal |-> FALSE,
          printed |-> <<MSG_FORMAT>>]
    ELSE Restore1202State(inp.items)

Construct ==
    /\ state = "New"
    /\ LET r == InitComputer(int_code_input)
       IN  /\ int_code_list' = r.lst
           /\ is_state_nominal' = r.nominal
           /\ printed' = printed \o r.printed
           /\ exc' = r.exc
           /\ state' = IF r.exc = "none" THEN "Ready" ELSE "Raised"
    /\ int_code_input' = CallerList(int_code_input, int_code_list')
    /\ UNCHANGED <<cursor_pos, locals, return_value, returned, fuel_vars>>

\* ------------------------------------------------------------------------
\* IntCodeComputer.compute_int_code
\* ------------------------------------------------------------------------
\* lines 120-127: return_value = 0, the nominal-state check, cursor_pos = 0
ComputeBegin ==
    /\ state = "Ready"
    /\ return_value' = PyInt(0)
    /\ IF ~is_state_nominal
       THEN LET r == Restore1202State(int_code_list)
            IN  /\ int_code_list' = r.lst
                /\ is_state_nominal' = r.nominal
                /\ printed' = printed \o r.printed
                /\ exc' = r.exc
                /\ state' = IF r.exc = "none" THEN "Running" ELSE "Failed"
       ELSE /\ state' = "Running"
            /\ UNCHANGED <<int_code_list, is_state_nominal, printed, exc>>
    /\ cursor_pos' = 0
    /\ int_code_input' = CallerList(int_code_input, int_code_list')
    /\ UNCHANGED <<locals, returned, fuel_vars>>

\* lines 130-135: the six reads of one iteration, in the order of the code;
\* the first read that raises ends the iteration and the locals after it keep
\* the values in old
Fetch(lst, cur, old) ==
    LET r0 == GetItem(lst, PyInt(cur + STRATEGY_POS))
        a0 == [old EXCEPT !.strategy = r0.v]
        r1 == GetItem(lst, PyInt(cur + VALUE_1_POS))
        a1 == [a0 EXCEPT !.value1_pos = r1.v]
        r2 == GetItem(lst, r1.v)
        a2 == [a1 EXCEPT !.value1 = r2.v]
        r3 == GetItem(lst, PyInt(cur + VALUE_2_POS))
        a3 == [a2 EXCEPT !.value2_pos = r3.v]
        r4 == GetItem(lst, r3.v)
        a4 == [a3 EXCEPT !.value2 = r4.v]
        r5 == GetItem(lst, PyInt(cur + TARGET_POS))
        a5 == [a4 EXCEPT !.target = r5.v]
    IN  IF r0.exc # "none" THEN [old EXCEPT !.exc = r0.exc]
        ELSE IF r1.exc # "none" THEN [a0 EXCEPT !.exc = r1.exc]
        ELSE IF r2.exc # "none" THEN [a1 EXCEPT !.exc = r2.exc]
        ELSE IF r3.exc # "none" THEN [a2 EXCEPT !.exc = r3.exc]
        ELSE IF r4.exc # "none" THEN [a3 EXCEPT !.exc = r4.exc]
        ELSE IF r5.exc # "none" THEN [a4 EXCEPT !.exc = r5.exc]
        ELSE a5

\* lines 137-149: the dispatch on the strategy code
Execute(lst, f) ==
    IF EqInt(f.strategy, ADD_STRATEGY_CODE)
    THEN LET c == AddCalculate(f.value1, f.value2)
             w == SetTargetValue(lst, f.target, c.value)
         IN  [exc |-> w.exc, lst |-> w.lst, printed |-> c.printed, brk |-> FALSE]
    ELSE IF EqInt(f.strategy, MULTIPLY_STRATEGY_CODE)
    THEN LET c == MultiplyCalculate(f.value1, f.value2)
             w == SetTargetValue(lst, f.target, c.value)
         IN  [exc |-> w.exc, lst |-> w.lst, printed |-> c.printed, brk |-> FALSE]
    ELSE IF EqInt(f.strategy, HALT_CODE)
    THEN [exc |-> "none", lst |-> lst, printed |-> <<>>, brk |-> TRUE]
    ELSE [exc |-> "CalculationException", lst |-> lst, printed |-> <<MSG_UNEXPECTED>>,
          brk |-> FALSE]

\* the variant that advances the cursor after the halt code as well
LoopBody_AdvanceOnHalt ==
    /\ state = "Running"
    /\ cursor_pos < Len(int_code_list)
    /\ LET old == [strategy |-> strategy, value1_pos |-> value1_pos, value1 |-> value1,
                   value2_pos |-> value2_pos, value2 |-> value2, target |-> target,
                   exc |-> "none"]
           f == Fetch(int_code_list, cursor_pos, old)
           e == Execute(int_code_list, f)
       IN  /\ strategy' = f.strategy /\ value1_pos' = f.value1_pos /\ value1' = f.value1
           /\ value2_pos' = f.value2_pos /\ value2' = f.value2 /\ target' = f.target
           /\ IF f.exc # "none"
              THEN /\ exc' = f.exc
                   /\ state' = "Failed"
                   /\ UNCHANGED <<int_code_list, printed, cursor_pos>>
              ELSE /\ exc' = e.exc
                   /\ int_code_list' = e.lst
                   /\ printed' = printed \o e.printed
                   /\ state' = IF e.exc # "none" THEN "Failed"
                               ELSE IF e.brk THEN "Halted" ELSE "Running"
                   /\ cursor_pos' = IF e.exc = "none"
                                    THEN cursor_pos + INSTR_SET_LEN ELSE cursor_pos
    /\ int_code_input' = CallerList(int_code_input, int_code_list')
    /\ UNCHANGED <<is_state_nominal, return_value, returned, fuel_vars>>

\* lines 129-151: one iteration of the while loop
LoopBody ==
    /\ state = "Running"
    /\ cursor_pos < Len(int_code_list)
    /\ LET old == [strategy |-> strategy, value1_pos |-> value1_pos, value1 |-> value1,
                   value2_pos |-> value2_pos, value2 |-> value2, target |-> target,
                   exc |-> "none"]
           f == Fetch(int_code_list, cursor_pos, old)
           e == Execute(int_code_list, f)
       IN  /\ strategy' = f.strategy /\ value1_pos' = f.value1_pos /\ value1' = f.value1
           /\ value2_pos' = f.value2_pos /\ value2' = f.value2 /\ target' = f.target
           /\ IF f.exc # "none"
              THEN /\ exc' = f.exc
                   /\ state' = "Failed"
                   /\ UNCHANGED <<int_code_list, printed, cursor_pos>>
              ELSE /\ exc' = e.exc
                   /\ int_code_list' = e.lst
                   /\ printed' = printed \o e.printed
                   /\ state' = IF e.exc # "none" THEN "Failed"
                               ELSE IF e.brk THEN "Halted" ELSE "Running"
                   /\ cursor_pos' = IF e.exc = "none" /\ ~e.brk
                                    THEN cursor_pos + INSTR_SET_LEN ELSE cursor_pos
    /\ int_code_input' = CallerList(int_code_input, int_code_list')
    /\ UNCHANGED <<is_state_nominal, return_value, returned, fuel_vars>>

\* line 129: the loop condition is false, no halt code was met
LoopExit ==
    /\ state = "Running"
    /\ cursor_pos >= Len(int_code_list)
    /\ state' = "Exhausted"
    /\ UNCHANGED <<int_code_input, int_code_list, is_state_nominal, cursor_pos, locals,
                   return_value, returned, exc, printed, fuel_vars>>

\* lines 153 and 160, reached after the break and after the loop condition
\* turned false alike
ReadResult ==
    /\ state \in {"Halted", "Exhausted"}
    /\ ~returned
    /\ LET r == GetItem(int_code_list, PyInt(0))
       IN  IF r.exc # "none"
           THEN /\ exc' = r.exc /\ state' = "Failed"
                /\ UNCHANGED <<return_value, returned>>
           ELSE /\ return_value' = r.v /\ returned' = TRUE
                /\ UNCHANGED <<exc, state>>
    /\ UNCHANGED <<int_code_input, int_code_list, is_state_nominal, cursor_pos, locals,
                   printed, fuel_vars>>

\* the variant that skips the faulty instruction and goes on with the next
HandleException_Retry ==
    /\ state = "Failed"
    /\ ~returned
    /\ printed' = Append(printed, MSG_ABORT)
    /\ state' = "Running"
    /\ cursor_pos' = cursor_pos + INSTR_SET_LEN
    /\ UNCHANGED <<int_code_input, int_code_list, is_state_nominal, locals,
                   return_value, returned, exc, fuel_vars>>

\* the variant whose except clause names CalculationException only: any other
\* exception reaches the caller
HandleException_Narrow ==
    /\ state = "Failed"
    /\ ~returned
    /\ IF exc = "CalculationException"
       THEN /\ printed' = Append(printed, MSG_ABORT)
            /\ return_value' = FAILURE_TEXT
            /\ returned' = TRUE
            /\ UNCHANGED state
       ELSE /\ state' = "Raised"
            /\ UNCHANGED <<printed, return_value, returned>>
    /\ UNCHANGED <<int_code_input, int_code_list, is_state_nominal, cursor_pos, locals,
                   exc, fuel_vars>>

\* lines 155-160: every exception ends in the same text
HandleException ==
    /\ state = "Failed"
    /\ ~returned
    /\ printed' = Append(printed, MSG_ABORT)
    /\ return_value' = FAILURE_TEXT
    /\ returned' = TRUE
    /\ UNCHANGED <<int_code_input, int_code_list, is_state_nominal, cursor_pos, locals,
                   state, exc, fuel_vars>>

Next ==
    \/ Construct
    \/ ComputeBegin
    \/ LoopBody
    \/ LoopExit
    \/ ReadResult
    \/ HandleException

Spec == Init /\ [][Next]_vars

\* ------------------------------------------------------------------------
\* Properties
\* ------------------------------------------------------------------------
Memory == int_code_list
MemLen == Len(int_code_list)
\* memory[a] for an address a known to be in 0..MemLen-1
At(a) == int_code_list[a + 1]
ValidAddr(v) == IsInt(v) /\ v.n >= 0 /\ v.n < MemLen
IntInput ==
    /\ int_code_input.iterable
    /\ \A i \in 1..Len(int_code_input.items) : IsInt(int_code_input.items[i])
\* the run is about to execute the instruction at the cursor
AtInstruction == state = "Running" /\ cursor_pos < MemLen
\* the four slots of the instruction at the cursor exist
FullInstruction == AtInstruction /\ cursor_pos + TARGET_POS < MemLen
OpIs(k) == EqInt(At(cursor_pos), k)
OpArith == OpIs(ADD_STRATEGY_CODE) \/ OpIs(MULTIPLY_STRATEGY_CODE)

\* C1: a run of a list of integers whose cursor arrived at a slot holding 99
\* (every earlier instruction having completed) ends Halted and returns
\* memory[0]
C1_HaltReturnsMemory0 ==
    (IntInput /\ returned /\ EqInt(strategy, HALT_CODE))
        => (state = "Halted" /\ return_value = At(0))

\* C2: with 99 at the cursor the iteration halts, whatever follows the cursor,
\* and reads none of the operand slots
C2_HaltBeforeOperands ==
    [][(AtInstruction /\ OpIs(HALT_CODE))
          => (state' = "Halted"
              /\ UNCHANGED <<value1_pos, value1, value2_pos, value2, target>>)]_vars

\* C3: an add or multiply instruction whose three addresses are valid and
\* whose operands are integers leaves memory[p1] + memory[p2] (opcode 1) or
\* memory[p1] * memory[p2] (opcode 2) in memory[dest], the operands being those
\* of memory at the start of the iteration
C3_Pre ==
    /\ FullInstruction
    /\ OpArith
    /\ ValidAddr(At(cursor_pos + VALUE_1_POS))
    /\ ValidAddr(At(cursor_pos + VALUE_2_POS))
    /\ ValidAddr(At(cursor_pos + TARGET_POS))
    /\ IsInt(At(At(cursor_pos + VALUE_1_POS).n))
    /\ IsInt(At(At(cursor_pos + VALUE_2_POS).n))
C3_Expected ==
    LET v1 == At(At(cursor_pos + VALUE_1_POS).n).n
        v2 == At(At(cursor_pos + VALUE_2_POS).n).n
    IN  IF OpIs(ADD_STRATEGY_CODE) THEN PyInt(v1 + v2) ELSE PyInt(v1 * v2)
C3_StepWritesResult ==
    [][C3_Pre =>
          /\ state' = "Running"
          /\ int_code_list'[At(cursor_pos + TARGET_POS).n + 1] = C3_Expected]_vars
\* the third instruction has multiplied operands written by earlier ones
C3_Witness ==
    /\ state = "Running" /\ cursor_pos = 2 * INSTR_SET_LEN
    /\ EqInt(strategy, MULTIPLY_STRATEGY_CODE)
    /\ ValidAddr(value1_pos) /\ ValidAddr(value2_pos) /\ ValidAddr(target)
    /\ IsInt(value1) /\ IsInt(value2)
    /\ At(target.n) = PyInt(value1.n * value2.n)
    /\ At(target.n) # PyInt(0)

\* C4: an opcode other than 1, 2 and 99 ends the run with the unknown-opcode
\* error, whatever the next three slots hold, and memory is not written
C4_UnknownOpcode ==
    [][(AtInstruction /\ ~OpArith /\ ~OpIs(HALT_CODE))
          => (state' = "Failed" /\ exc' = "CalculationException"
              /\ printed' = Append(printed, MSG_UNEXPECTED)
              /\ int_code_list' = int_code_list)]_vars

\* C5: an add or multiply instruction one of whose addresses is negative or
\* not below the memory length ends the run in Failed and leaves memory as it
\* was
C5_BadAddr(v) == IsInt(v) /\ (v.n < 0 \/ v.n >= MemLen)
C5_OutOfBoundsFails ==
    [][(FullInstruction /\ OpArith
        /\ (\/ C5_BadAddr(At(cursor_pos + VALUE_1_POS))
            \/ C5_BadAddr(At(cursor_pos + VALUE_2_POS))
            \/ C5_BadAddr(At(cursor_pos + TARGET_POS))))
          => (state' = "Failed" /\ int_code_list' = int_code_list)]_vars

\* C6: a run whose cursor left the memory returns the failure text, not
\* memory[0]
C6_RunOffFails ==
    (returned /\ cursor_pos >= MemLen)
        => (state = "Failed" /\ return_value = FAILURE_TEXT)

\* C7: only a halted run returns something other than the failure text
C7_ValueOnlyFromHalted ==
    (returned /\ state # "Halted") => return_value = FAILURE_TEXT

\* C8: an add or multiply instruction with valid addresses and an operand that
\* is not an integer ends the run in Failed and leaves memory as it was
C8_NonIntegerOperandFails ==
    [][(/\ FullInstruction
        /\ OpArith
        /\ ValidAddr(At(cursor_pos + VALUE_1_POS))
        /\ ValidAddr(At(cursor_pos + VALUE_2_POS))
        /\ ValidAddr(At(cursor_pos + TARGET_POS))
        /\ (\/ ~IsInt(At(At(cursor_pos + VALUE_1_POS).n))
            \/ ~IsInt(At(At(cursor_pos + VALUE_2_POS).n))))
          => (state' = "Failed" /\ int_code_list' = int_code_list)]_vars

\* C9: the constructor succeeds only for a list of integers, so every slot of
\* the memory of a constructed computer is an integer
C9_ConstructedMemoryIsIntegers ==
    (state \notin {"New", "Raised"})
        => (IntInput /\ \A i \in 1..MemLen : IsInt(int_code_list[i]))

\* C10: the constructor of a list of fewer than 3 slots raises the calibration
\* error: the computer never becomes Ready and fetches no instruction
C10_ShortInput == int_code_input.iterable /\ Len(int_code_input.items) < 3
C10_ShortProgramRaises ==
    (C10_ShortInput /\ state # "New")
        => (/\ state = "Raised"
            /\ exc = "CalculationException"
            /\ printed = <<MSG_1202>>
            /\ strategy = PyNone
            /\ ~returned)
\* a two-slot list: the write to slot 1 succeeded, the write to slot 2 raised
C10_Witness ==
    /\ state = "Raised"
    /\ Len(int_code_input.items) = 2
    /\ int_code_input.iterable

\* C11: the program of scenario 3 ends Halted with result 3500
Scenario3 == Ints(<<1, 9, 10, 3, 2, 3, 11, 0, 99, 30, 40, 50>>)
C11_Scenario3Gives3500 ==
    (int_code_input.iterable /\ int_code_input.items = Scenario3 /\ returned)
        => (state = "Halted" /\ return_value = PyInt(3500))

\* C11 as amended: calibration replaces the operand addresses 9 and 10 of the
\* first instruction by 12 and 2; address 12 is outside the 12 slots, the first
\* iteration raises IndexError and the run returns the failure text
C11_Scenario3Fails ==
    (int_code_input.iterable /\ int_code_input.items = Scenario3 /\ returned)
        => (/\ state = "Failed"
            /\ exc = "IndexError"
            /\ cursor_pos = 0
            /\ int_code_list = Ints(<<1, 12, 2, 3, 2, 3, 11, 0, 99, 30, 40, 50>>)
            /\ return_value = FAILURE_TEXT)
C11_Witness ==
    /\ int_code_input.iterable /\ int_code_input.items = Scenario3
    /\ returned
    /\ value1_pos = PyInt(NOUN_1202)

\* C12: once the run is Halted or Failed it stays there; no further fetch
\* (the locals keep their values), no write to memory, no move of the cursor,
\* and the exception of the first fault is the one reported
C12_TerminalStates ==
    [][(state \in {"Halted", "Failed"})
          => (/\ state' = state
              /\ int_code_list' = int_code_list
              /\ cursor_pos' = cursor_pos
              /\ locals' = locals
              /\ exc' = exc)]_vars
\* a run that failed after at least one completed instruction has returned
C12_Witness == returned /\ state = "Failed" /\ cursor_pos > 0

\* ------------------------------------------------------------------------
\* _restore_1202_state applied repeatedly to the copied list
\* ------------------------------------------------------------------------
\* lines 73-74 have copied the caller's items, line 91 has not run yet
InitCalibration ==
    /\ int_code_input \in Inputs
    /\ int_code_input.iterable
    /\ int_code_list = int_code_input.items
    /\ is_state_nominal = FALSE
    /\ cursor_pos = 0
    /\ strategy = PyNone /\ value1_pos = PyNone /\ value1 = PyNone
    /\ value2_pos = PyNone /\ value2 = PyNone /\ target = PyNone
    /\ return_value = PyNone
    /\ state = "Uncalibrated"
    /\ returned = FALSE
    /\ exc = "none"
    /\ printed = <<>>
    /\ FuelIdle

\* one call of _restore_1202_state
Calibrate ==
    /\ state \in {"Uncalibrated", "CalibratedOnce"}
    /\ LET r == Restore1202State(int_code_list)
       IN  /\ int_code_list' = r.lst
           /\ is_state_nominal' = r.nominal
           /\ printed' = printed \o r.printed
           /\ exc' = r.exc
           /\ state' = IF r.exc # "none" THEN "Raised"
                       ELSE IF state = "Uncalibrated" THEN "CalibratedOnce"
                       ELSE "CalibratedTwice"
    /\ UNCHANGED <<int_code_input, cursor_pos, locals, return_value, returned, fuel_vars>>

NextCalibration == Calibrate

SpecCalibration == InitCalibration /\ [][NextCalibration]_vars

\* C13: for a memory of at least 3 slots the second calibration changes
\* nothing, and a calibrated memory has 12 in slot 1, 2 in slot 2 and the
\* caller's values everywhere else
C13_Calibrated ==
    /\ Len(int_code_list) = Len(int_code_input.items)
    /\ \A i \in 1..Len(int_code_list) :
          int_code_list[i] = IF i = 2 THEN PyInt(12)
                             ELSE IF i = 3 THEN PyInt(2)
                             ELSE int_code_input.items[i]
C13_CalibrationIdempotent ==
    /\ []((Len(int_code_input.items) >= 3 /\ state # "Uncalibrated")
             => (state \in {"CalibratedOnce", "CalibratedTwice"} /\ C13_Calibrated))
    /\ [][(state = "CalibratedOnce")
             => (state' = "CalibratedTwice" /\ int_code_list' = int_code_list)]_vars
\* calibrated twice, the caller having supplied something else in slots 1 and 2
C13_Witness ==
    /\ state = "CalibratedTwice"
    /\ int_code_input.items[2] # PyInt(12)
    /\ int_code_input.items[3] # PyInt(2)

\* ------------------------------------------------------------------------
\* The strategies on their own
\* ------------------------------------------------------------------------
Operands == {PyInt(n) : n \in -MaxOperand..MaxOperand}

\* the strategy object that the dispatch of lines 137-141 selects for a code
StrategyCalculate(code, first_value, second_value) ==
    IF code = ADD_STRATEGY_CODE THEN AddCalculate(first_value, second_value)
    ELSE MultiplyCalculate(first_value, second_value)

InitCalculate ==
    /\ strategy \in {PyInt(ADD_STRATEGY_CODE), PyInt(MULTIPLY_STRATEGY_CODE)}
    /\ value1 \in Operands
    /\ value2 \in Operands
    /\ int_code_input = NotIterable
    /\ int_code_list = <<>>
    /\ is_state_nominal = FALSE
    /\ cursor_pos = 0
    /\ value1_pos = PyNone /\ value2_pos = PyNone /\ target = PyNone
    /\ return_value = PyNone
    /\ state = "Operands"
    /\ returned = FALSE
    /\ exc = "none"
    /\ printed = <<>>
    /\ FuelIdle

\* calculate(value1, value2) of the selected strategy
Calculate ==
    /\ state = "Operands"
    /\ LET c == StrategyCalculate(strategy.n, value1, value2)
       IN  /\ return_value' = c.value
           /\ printed' = printed \o c.printed
    /\ state' = "Calculated"
    /\ UNCHANGED <<int_code_input, int_code_list, is_state_nominal, cursor_pos, locals,
                   returned, exc, fuel_vars>>

NextCalculate == Calculate

SpecCalculate == InitCalculate /\ [][NextCalculate]_vars

\* C14: for integers a and b, calculate(a, b) of Add and of Multiply is the
\* integer that calculate(b, a) gives
C14_Commutative ==
    (state = "Calculated")
        => (/\ IsInt(return_value)
            /\ return_value = StrategyCalculate(strategy.n, value2, value1).value)
\* an addition of two different operands has been calculated
C14_Witness ==
    /\ state = "Calculated"
    /\ strategy = PyInt(ADD_STRATEGY_CODE)
    /\ value1 # value2
    /\ IsInt(return_value)

\* C15: the cursor is 0 when the run starts, a completed add or multiply
\* instruction moves it forward by 4 and no other step moves it; it is always
\* a non-negative multiple of 4
C15_CursorAdvance ==
    /\ [](cursor_pos >= 0 /\ cursor_pos % 4 = 0 /\ (state = "Ready" => cursor_pos = 0))
    /\ [][IF AtInstruction /\ OpArith /\ state' = "Running"
          THEN cursor_pos' = cursor_pos + 4
          ELSE cursor_pos' = cursor_pos]_vars
\* three instructions completed
C15_Witness == state = "Running" /\ cursor_pos = 12

\* C16: when the computer is Ready and when the first instruction is about to
\* be fetched, memory[1] is 12 and memory[2] is 2, whatever the caller's list
\* held there
C16_CalibratedBeforeFirstFetch ==
    (state = "Ready" \/ (state = "Running" /\ cursor_pos = 0))
        => (MemLen >= 3 /\ At(1) = PyInt(12) /\ At(2) = PyInt(2))
\* about to fetch the first instruction; the caller supplied 5 and a text
C16_Witness ==
    /\ state = "Running" /\ cursor_pos = 0 /\ strategy = PyNone
    /\ int_code_input.items[2] = PyInt(5)
    /\ int_code_input.items[3] = TextA

\* C17: a step of a run changes memory only by the write of a completed add or
\* multiply instruction, and then only in the slot memory[dest]; the length of
\* memory never changes and is that of the caller's list
C17_Frame ==
    /\ []((state \notin {"New", "Raised"}) => MemLen = Len(int_code_input.items))
    /\ [][(state # "New")
             => (/\ Len(int_code_list') = MemLen
                 /\ \A i \in 1..MemLen :
                       (int_code_list'[i] # int_code_list[i])
                           => (/\ FullInstruction
                               /\ OpArith
                               /\ state' = "Running"
                               /\ i = Slot(int_code_list, At(cursor_pos + TARGET_POS))))]_vars
\* an instruction has changed its destination slot, which is not slot 0
C17_Witness ==
    /\ state = "Running" /\ cursor_pos > 0
    /\ IsInt(target) /\ target.n > 0 /\ target.n < MemLen
    /\ At(target.n) # int_code_input.items[target.n + 1]

\* the lists of the runs followed to their end: every first instruction with
\* few second ones, the short lists and the scenarios
LongListsFew ==
    {i0 \o i1 \o i2 \o i3 \o pad :
        i0 \in FirstAll, i1 \in SecondFew, i2 \in ThirdAll, i3 \in LastAll, pad \in Pads}
InputsFair ==
    {NotIterable}
    \cup {[iterable |-> TRUE, items |-> q] : q \in ShortLists \cup LongListsFew \cup ScenarioLists}

InitFair ==
    /\ int_code_input \in InputsFair
    /\ int_code_list = <<>>
    /\ is_state_nominal = FALSE
    /\ cursor_pos = 0
    /\ strategy = PyNone /\ value1_pos = PyNone /\ value1 = PyNone
    /\ value2_pos = PyNone /\ value2 = PyNone /\ target = PyNone
    /\ return_value = PyNone
    /\ state = "New"
    /\ returned = FALSE
    /\ exc = "none"
    /\ printed = <<>>
    /\ FuelIdle

\* the interpreter runs to completion: a step that can be taken is taken
FairSpec == InitFair /\ [][Next]_vars /\ WF_vars(Next)

LIMB == 2^28
BigInt(h, l) == [kind |-> "int", h |-> h, l |-> l]
Small(n) == BigInt(n \div LIMB, n % LIMB)
MassText == [kind |-> "str", h |-> 0, l |-> 0]
FUEL_FAILURE_TEXT == [kind |-> "str", h |-> 1, l |-> 0]
MSG_NOT_NUMERIC == "Module masses were not provided in a numeric format. Please provide masses as numbers."

BigAdd(a, b) == BigInt(a.h + b.h + ((a.l + b.l) \div LIMB), (a.l + b.l) % LIMB)
BigNeg(a) == IF a.l = 0 THEN BigInt(-a.h, 0) ELSE BigInt(-a.h - 1, LIMB - a.l)
BigIsNeg(a) == a.h < 0

\* the integer quotient floor(a / 3) and the remainder, exactly
FloorDiv3(a) == BigInt(a.h \div 3, ((a.h % 3) * LIMB + a.l) \div 3)
Rem3(a) == ((a.h % 3) * LIMB + a.l) % 3

\* binary64: 53 significant bits
MANT_DIG == 53
\* number of low bits that a non-negative quotient q loses in a float: -1 if
\* the float still has fraction bits (q < 2^52), else bit length - 53
LostBits(q) ==
    IF q.h < 2^(MANT_DIG - 29) THEN -1
    ELSE CHOOSE e \in 0..5 : 2^(MANT_DIG - 29 + e) <= q.h /\ q.h < 2^(MANT_DIG - 28 + e)

\* a / 3 for a non-negative int a, correctly rounded to binary64 (ties to the
\* even mantissa), then math.floor. With fraction bits left, the float nearest
\* to q + r/3 is below q + 1 (q + 1/2 is a float), so the floor is q.
FloatDiv3Floor(a) ==
    LET q == FloorDiv3(a)
        r == Rem3(a)
        e == LostBits(q)
    IN  IF e < 0 THEN q
        ELSE LET unit == 2^e
                 low == q.l % unit
                 base == BigInt(q.h, q.l - low)
                 odd == (q.l \div unit) % 2 = 1
                 up == IF e = 0 THEN r = 2
                       ELSE \/ 2 * low > unit
                            \/ (2 * low = unit /\ r > 0)
                            \/ (2 * low = unit /\ r = 0 /\ odd)
             IN  IF up THEN BigAdd(base, Small(unit)) ELSE base

\* math.floor(module_mass / 3) for an int: the division rounds the magnitude,
\* the floor of a negative float that is not whole is one below
TrueDivFloor3(a) ==
    IF ~BigIsNeg(a) THEN FloatDiv3Floor(a)
    ELSE IF LostBits(FloorDiv3(BigNeg(a))) < 0 THEN FloorDiv3(a)
    ELSE BigNeg(FloatDiv3Floor(BigNeg(a)))

\* FuelCalculator.get_fuel_for_module: a text raises TypeError at the
\* division, reported as CalculationException
GetFuelForModule(module_mass) ==
    IF module_mass.kind # "int"
    THEN [exc |-> "CalculationException", fuel |-> Small(0), printed |-> <<MSG_NOT_NUMERIC>>]
    ELSE [exc |-> "none", fuel |-> BigAdd(TrueDivFloor3(module_mass), Small(-2)),
          printed |-> <<>>]

BigMass == BigInt(3 * 2^24, 2)
MassVals == {Small(0), Small(14), Small(1969), Small(-1), BigMass, MassText}
MassLists == UNION {[1..n -> MassVals] : n \in 0..MaxModules}

\* a FuelCalculator has been constructed from a list of masses
InitFuel ==
    /\ module_masses \in MassLists
    /\ total_fuel = PyNone
    /\ module_index = 0
    /\ fuel_pc = "Ready"
    /\ int_code_input = NotIterable
    /\ int_code_list = <<>>
    /\ is_state_nominal = FALSE
    /\ cursor_pos = 0
    /\ strategy = PyNone /\ value1_pos = PyNone /\ value1 = PyNone
    /\ value2_pos = PyNone /\ value2 = PyNone /\ target = PyNone
    /\ return_value = PyNone
    /\ state = "Idle"
    /\ returned = FALSE
    /\ exc = "none"
    /\ printed = <<>>

intcode_vars == <<int_code_input, int_code_list, is_state_nominal, cursor_pos, locals,
                  return_value, state, returned>>

\* get_total_fuel, line 40
FuelBegin ==
    /\ fuel_pc = "Ready"
    /\ total_fuel' = Small(0)
    /\ fuel_pc' = "Summing"
    /\ UNCHANGED <<module_masses, module_index, intcode_vars, exc, printed>>

\* lines 43-44: one iteration of the for loop
FuelAddModule ==
    /\ fuel_pc = "Summing"
    /\ module_index < Len(module_masses)
    /\ LET g == GetFuelForModule(module_masses[module_index + 1])
       IN  /\ printed' = printed \o g.printed
           /\ exc' = g.exc
           /\ IF g.exc # "none"
              THEN fuel_pc' = "Raised" /\ UNCHANGED total_fuel
              ELSE total_fuel' = BigAdd(total_fuel, g.fuel) /\ UNCHANGED fuel_pc
    /\ module_index' = module_index + 1
    /\ UNCHANGED <<module_masses, intcode_vars>>

\* lines 45-48: the CalculationException replaces the sum by the text
FuelCatch ==
    /\ fuel_pc = "Raised"
    /\ total_fuel' = FUEL_FAILURE_TEXT
    /\ fuel_pc' = "Done"
    /\ UNCHANGED <<module_masses, module_index, intcode_vars, exc, printed>>

\* line 48 after the last module
FuelReturn ==
    /\ fuel_pc = "Summing"
    /\ module_index = Len(module_masses)
    /\ fuel_pc' = "Done"
    /\ UNCHANGED <<module_masses, total_fuel, module_index, intcode_vars, exc, printed>>

NextFuel ==
    \/ FuelBegin
    \/ FuelAddModule
    \/ FuelCatch
    \/ FuelReturn

SpecFuel == InitFuel /\ [][NextFuel]_vars

\* C20: get_total_fuel returns the sum of floor(mass / 3) - 2 over a list of
\* integer masses (0 for the empty list) and the failure text when a mass is
\* not numeric
RECURSIVE C20_ExactSum(_)
C20_ExactSum(masses) ==
    IF Len(masses) = 0 THEN Small(0)
    ELSE BigAdd(C20_ExactSum(SubSeq(masses, 1, Len(masses) - 1)),
                BigAdd(FloorDiv3(masses[Len(masses)]), Small(-2)))
C20_TotalFuel ==
    (fuel_pc = "Done")
        => IF \A i \in 1..Len(module_masses) : module_masses[i].kind = "int"
           THEN total_fuel = C20_ExactSum(module_masses)
           ELSE total_fuel = FUEL_FAILURE_TEXT

====
